---- MODULE Spec2Model ----
(***************************************************************************)
(* Change Risk Analysis Pipeline of crisk.                                 *)
(*                                                                         *)
(* Two implementations of the same pipeline are modelled side by side:     *)
(*   impl = "local"   crisk.py main(): calls the scoring service and the   *)
(*                    text generator itself;                               *)
(*   impl = "remote"  crisk/cli.py main() -> crisk/check.py run_check():   *)
(*                    delegates the analysis to the backend.               *)
(* One behaviour is one process run.  The repository, the token file, the  *)
(* command line and the blame output are the environment of the run and    *)
(* are fixed in Init; the answers of the network collaborators and of the  *)
(* operator are drawn when the code asks for them.                         *)
(*                                                                         *)
(* Scores are hundredths (0.3 is 30).  A file content is its length.       *)
(* get_git_remote and get_git_hash only add two optional keys to the       *)
(* payload and one printed line; they are left out.                        *)
(***************************************************************************)
EXTENDS Integers, Sequences, FiniteSets, TLC

(***************************************************************************)
(* Bounds of the model                                                     *)
(***************************************************************************)
\* longest block of one repeated entry at the head of a collaborator result
MaxRun == 11
\* longest block of a second entry following it
MaxTail == 1
\* length of a collaborator result of freely mixed entries
MaxMixed == 3
\* lines of a file attributed freely to commits
MaxLines == 5
\* lines of the first and of the second commit of a two-commit file
MaxBlock == 5
MaxBlockTail == 3
\* get_file_owner calls in a row
MaxCalls == 3
\* lines of the tracked-file listing
MaxTracked == 3

(***************************************************************************)
(* Program constants                                                       *)
(***************************************************************************)
ScoreThreshold == 30
MaxRelated == 10
ContentCeiling == 50000
\* seconds after which login gives up, seconds handle_request waits
LoginDeadline == 120
ServerTimeout == 120

ExcludedLocal == {".png", ".jpg", ".jpeg", ".gif", ".ico", ".pdf", ".zip", ".tar", ".gz"}
ExcludedRemote == ExcludedLocal \cup {".lock"}

(***************************************************************************)
(* Input domains                                                           *)
(***************************************************************************)
Files == {"b.py", "c.py"}
Scores == {20, 30, 90}
Emails == {"alice@example.com", "bob@example.com"}

DiffTexts == {"", "diff"}
StagedLists == {<< >>, <<"a.py">>, <<"b.py">>, <<"a.py", "b.py">>}

\* token file: absent, or its text
TokenFiles == {"absent", "", " ", "tok"}

\* tracked files as the listing and the file system present them; in the
\* pipeline the empty listing is the one of a failed `git ls-files`
TrackedSamples ==
    { << [name |-> "", ext |-> "", io |-> "error", len |-> 0] >>,
      << [name |-> "a.py", ext |-> ".py", io |-> "ok", len |-> 10],
         [name |-> "img.png", ext |-> ".png", io |-> "ok", len |-> 900],
         [name |-> "b.py", ext |-> ".py", io |-> "ok", len |-> 50001],
         [name |-> "c.py", ext |-> ".py", io |-> "error", len |-> 0],
         [name |-> "poetry.lock", ext |-> ".lock", io |-> "ok", len |-> 40] >> }

\* the git queries whose exit status the pipeline never reads: the staged
\* diff, the staged-file list and the tracked-file list
GitQueries == {"diff", "staged", "ls-files"}

\* git exits 0, or 128 (a fatal error, such as outside a repository)
GitStatuses == {0, 128}

GitAllOk == [q \in GitQueries |-> 0]

\* git blame --porcelain: the call raises, or exits with rc and prints lines.
\* A line is an e-mail (the line "author-mail <e>"), "nolt" (an author-mail
\* line without "<") or "other" (any other line).
BlameSamples ==
    { [kind |-> "raise", rc |-> 0, lines |-> << >>],
      [kind |-> "exit", rc |-> 128, lines |-> << >>],
      [kind |-> "exit", rc |-> 0, lines |-> <<"other">>],
      [kind |-> "exit", rc |-> 0,
       lines |-> <<"other", "bob@example.com", "alice@example.com", "other",
                   "alice@example.com">>] }

\* the blame outputs tried on the first file: the call raising and the call
\* printing authors
FewBlames == { s \in BlameSamples : s.kind = "raise" \/ Len(s.lines) > 1 }

Entries == [filename : Files, score : Scores]

Rep2(e1, k1, e2, k2) == [i \in 1..(k1 + k2) |-> IF i <= k1 THEN e1 ELSE e2]

\* a collaborator result: two runs of one entry each, or a short list of
\* freely mixed entries below and above the threshold
ResultLists ==
    { Rep2(e1, k1, e2, k2) : e1 \in Entries, k1 \in 0..MaxRun,
                             e2 \in Entries, k2 \in 0..MaxTail }
    \cup [1..MaxMixed -> { e \in Entries : e.score # ScoreThreshold }]

\* JSON bodies of a status-200 answer.  shape: "invalid" does not parse,
\* "null" parses to None, "array" to a non-empty list, "object" to a dict.
\* keys: which of the list key ("results" / "related_files") and
\* "draft_message" the object carries.
Bodies ==
    { [shape |-> s, keys |-> {}, list |-> << >>, draft |-> ""] :
        s \in {"invalid", "null", "array", "object"} }
    \cup { [shape |-> "object", keys |-> {"draft"}, list |-> << >>, draft |-> "msg"] }
    \cup { [shape |-> "object", keys |-> {"list"}, list |-> rs, draft |-> ""] :
             rs \in ResultLists }
    \cup { [shape |-> "object", keys |-> {"list", "draft"}, list |-> rs, draft |-> "msg"] :
             rs \in ResultLists }

NoBody == [shape |-> "invalid", keys |-> {}, list |-> << >>, draft |-> ""]

\* the JSON body {"error": ...} of an error answer
ErrorBody == [shape |-> "object", keys |-> {"error"}, list |-> << >>, draft |-> ""]

\* what requests.post does: raises, or returns a status and a body
HttpOutcomes ==
    { [kind |-> k, status |-> 0, body |-> NoBody] :
        k \in {"ConnectionError", "Timeout", "OtherError"} }
    \cup { [kind |-> "response", status |-> st, body |-> b] :
             st \in {401, 500}, b \in {NoBody, ErrorBody} }
    \cup { [kind |-> "response", status |-> 200, body |-> b] : b \in Bodies }

NoResponse == [kind |-> "none", status |-> 0, body |-> NoBody]

\* the local pipeline never reads "draft_message"
LocalHttpOutcomes == { o \in HttpOutcomes : "draft" \notin o.body.keys }

\* no commit-level history is given: the blame outputs are given directly
NoHistory == << >>

\* the callbacks the listener can be sent: a token, an error, neither; a
\* token or error parameter with an empty value is dropped by parse_qs
CallbackTokens == {"new", " ", " new "}
CallbackRequests ==
    { [kind |-> "token", value |-> t] : t \in CallbackTokens }
    \cup { [kind |-> "error", value |-> "denied"],
           [kind |-> "neither", value |-> ""] }

\* no callback served yet
NoRequest == [kind |-> "none", value |-> "", status |-> 0]

GenOutcomes == {"ok", "raise"}
PromptAnswers == {"y", "n", "EOF"}

VARIABLES
    impl,          \* which implementation runs
    pc,            \* position of the run
    keysSet,       \* RELACE_API_KEY and GEMINI_API_KEY are both set
    tokenFile,     \* ~/.crisk/token
    repoDiff,      \* what `git diff --cached` prints
    repoStaged,    \* what `git diff --cached --name-only` lists
    blame,         \* per path, what `git blame --porcelain` does
    auto_draft,    \* "--draft" in sys.argv
    diff,          \* local variable diff
    staged_files,  \* local variable staged_files
    codebase,      \* local variable codebase
    snapshotBuilt, \* get_codebase_files was called
    related,       \* local variable related / related_files
    draft_message, \* local variable draft_message (remote)
    ownerIdx,      \* position of the owner loop
    should_draft,  \* local variable should_draft (local)
    rendered,      \* the related-file report as printed
    draftShown,    \* the DRAFT MESSAGE block was printed
    recipients,    \* the Recipients block as printed
    httpCalls,     \* requests.post calls made
    genCalls,      \* generate_content calls made
    tokenReads,    \* load_token calls made
    logErrors,     \* log_error calls made
    userMsg,       \* the failure message printed to the user, if any
    response,      \* what the last requests.post did
    ownerCalls,    \* get_file_owner calls made
    genResult,     \* what generate_content did, "none" before the call
    promptAnswer,  \* what input() gave at the draft prompt, "none" if not asked
    trackedFiles,  \* what `git ls-files` lists, with each file's read outcome
    history,       \* per path, the commits the lines of the file come from
    ownerLog,      \* the get_file_owner calls made so far and their results
    gitRc,         \* per git query, the exit status git reports
    loginPc,       \* position of login(): "idle" outside it, "wait" in its loop
    handlerToken,  \* AuthCallbackHandler.token
    handlerError,  \* AuthCallbackHandler.error
    clock,         \* time.time() - start_time, in seconds
    serverOpen,    \* the callback listener is bound
    loginResult,   \* what the last login() returned, "none" before it returns
    lastRequest,   \* the last callback handle_request() served and its answer
    tokenBefore,   \* the token file when the last command started
    lastCmd,       \* the last command started: login, logout or check
    lastCheck,     \* how the last check command ended
    loggedOut,     \* a logout ran and no login has succeeded since
    terminal,      \* how the run ended
    exitCode       \* process exit status, -1 while running

vars == << impl, pc, keysSet, tokenFile, repoDiff, repoStaged, blame, auto_draft,
           diff, staged_files, codebase, snapshotBuilt, related, draft_message,
           ownerIdx, should_draft, rendered, draftShown, recipients, httpCalls,
           genCalls, tokenReads, logErrors, userMsg, response, ownerCalls,
           genResult, promptAnswer, trackedFiles, history, ownerLog, gitRc,
           loginPc, handlerToken, handlerError, clock, serverOpen, loginResult,
           lastRequest, tokenBefore, lastCmd, lastCheck, loggedOut,
           terminal, exitCode >>

\* the state of the login, logout and check commands of a session
sessionVars == << loginPc, handlerToken, handlerError, clock, serverOpen,
                  loginResult, lastRequest, tokenBefore, lastCmd, lastCheck,
                  loggedOut >>

\* what no step of the pipeline writes
envVars == << impl, keysSet, tokenFile, repoDiff, repoStaged, blame, auto_draft,
              trackedFiles, history, ownerLog, gitRc, sessionVars >>

(***************************************************************************)
(* Pure functions of the source                                            *)
(***************************************************************************)

\* str.strip() on the texts of the model
Strip(t) ==
    CASE t = " "     -> ""
      [] t = " new " -> "new"
      [] OTHER       -> t

\* load_token without the strip()
load_token_NoStrip(file) == IF file = "absent" THEN "None" ELSE file

\* auth.load_token
load_token(file) == IF file = "absent" THEN "None" ELSE Strip(file)

\* auth.is_authenticated
is_authenticated(file) == load_token(file) # "None" /\ load_token(file) # ""

\* get_codebase_files: the filter applied to the tracked-file listing
Kept(f, excluded) ==
    /\ f.name # ""
    /\ f.ext \notin excluded
    /\ f.io = "ok"
    /\ f.len <= ContentCeiling

get_codebase_files(tracked, excluded) ==
    LET kept == SelectSeq(tracked, LAMBDA f : Kept(f, excluded))
    IN  [i \in 1..Len(kept) |-> [filename |-> kept[i].name, content |-> kept[i].len]]

\* get_file_owner: the e-mail an author-mail line contributes
EmailOfLine(line) == IF line = "nolt" THEN "unknown" ELSE line

AuthorLines(lines) == SelectSeq(lines, LAMBDA l : l # "other")

\* number of author-mail lines of one author
AuthorCount(lines, e) ==
    Cardinality({ i \in 1..Len(lines) : lines[i] # "other" /\ EmailOfLine(lines[i]) = e })

\* position at which an author is inserted into the dict
FirstSeen(lines, e) ==
    CHOOSE i \in 1..Len(lines) :
        /\ lines[i] # "other" /\ EmailOfLine(lines[i]) = e
        /\ \A j \in 1..(i - 1) : ~(lines[j] # "other" /\ EmailOfLine(lines[j]) = e)

AuthorKeys(lines) == { EmailOfLine(lines[i]) : i \in { j \in 1..Len(lines) : lines[j] # "other" } }

\* the maximum taken with ties going to the key inserted last
MaxAuthor_LastSeen(lines) ==
    CHOOSE e \in AuthorKeys(lines) :
        \A o \in AuthorKeys(lines) :
            \/ AuthorCount(lines, o) < AuthorCount(lines, e)
            \/ /\ AuthorCount(lines, o) = AuthorCount(lines, e)
               /\ FirstSeen(lines, e) >= FirstSeen(lines, o)

\* max(authors, key=authors.get): the first inserted key of maximal count
MaxAuthor(lines) ==
    CHOOSE e \in AuthorKeys(lines) :
        \A o \in AuthorKeys(lines) :
            \/ AuthorCount(lines, o) < AuthorCount(lines, e)
            \/ /\ AuthorCount(lines, o) = AuthorCount(lines, e)
               /\ FirstSeen(lines, e) <= FirstSeen(lines, o)

\* the first key of the dict returned whatever the counts
get_file_owner_FirstAuthor(out) ==
    IF out.kind = "raise" THEN "unknown"
    ELSE IF out.rc # 0 THEN "unknown"
    ELSE IF AuthorKeys(out.lines) = {} THEN "unknown"
    ELSE CHOOSE e \in AuthorKeys(out.lines) :
             \A o \in AuthorKeys(out.lines) :
                 FirstSeen(out.lines, e) <= FirstSeen(out.lines, o)

get_file_owner(out) ==
    IF out.kind = "raise" THEN "unknown"
    ELSE IF out.rc # 0 THEN "unknown"
    ELSE IF AuthorKeys(out.lines) = {} THEN "unknown"
    ELSE MaxAuthor(out.lines)

InSeq(x, s) == \E i \in 1..Len(s) : s[i] = x

Take(s, n) == SubSeq(s, 1, IF Len(s) < n THEN Len(s) ELSE n)

\* the post-processing with the threshold test written score >= 0.3
FilterRelated_Geq(results, staged) ==
    LET notStaged == SelectSeq(results, LAMBDA r : ~InSeq(r.filename, staged))
    IN  SelectSeq(Take(notStaged, MaxRelated), LAMBDA r : r.score >= ScoreThreshold)

\* rank_related_files, lines 107-113: the post-processing of the results
FilterRelated(results, staged) ==
    LET notStaged == SelectSeq(results, LAMBDA r : ~InSeq(r.filename, staged))
    IN  SelectSeq(Take(notStaged, MaxRelated), LAMBDA r : r.score > ScoreThreshold)

\* the owners dict of the Recipients block: owner -> filenames, in list order
GroupByOwner(rel) ==
    [o \in { rel[i].owner : i \in 1..Len(rel) } |->
        LET mine == SelectSeq(rel, LAMBDA r : r.owner = o)
        IN  [i \in 1..Len(mine) |-> mine[i].filename]]

NoOwner == "unset"

WithNoOwner(rs) ==
    [i \in 1..Len(rs) |-> [filename |-> rs[i].filename, score |-> rs[i].score, owner |-> NoOwner]]

\* the test on the parsed body also failing on an empty related list
Truthy_ListNonEmpty(body) ==
    \/ body.shape = "array"
    \/ body.shape = "object" /\ body.list # << >>

\* truthiness of the parsed JSON body: None and {} are falsy
Truthy(body) ==
    \/ body.shape = "array"
    \/ body.shape = "object" /\ body.keys # {}

(***************************************************************************)
(* Initial state                                                           *)
(***************************************************************************)
\* no login, logout or check command of a session has run
SessionIdle ==
    /\ loginPc = "idle"
    /\ handlerToken = "None"
    /\ handlerError = "None"
    /\ clock = 0
    /\ serverOpen = FALSE
    /\ loginResult = "none"
    /\ lastRequest = NoRequest
    /\ tokenBefore = "absent"
    /\ lastCmd = "none"
    /\ lastCheck = "none"
    /\ loggedOut = FALSE

\* crisk.py reads no token file and the crisk package no API key: the
\* input the implementation does not read is held at one value
Init ==
    /\ impl \in {"local", "remote"}
    /\ keysSet \in BOOLEAN
    /\ tokenFile \in TokenFiles
    /\ (impl = "local" => tokenFile = "absent")
    /\ (impl = "remote" => keysSet = FALSE)
    /\ repoDiff \in DiffTexts
    /\ repoStaged \in StagedLists
    /\ blame \in { b \in [Files -> BlameSamples] : b["b.py"] \in FewBlames }
    /\ auto_draft \in BOOLEAN
    /\ pc = "start"
    /\ diff = ""
    /\ staged_files = << >>
    /\ codebase = << >>
    /\ snapshotBuilt = FALSE
    /\ related = << >>
    /\ draft_message = ""
    /\ ownerIdx = 0
    /\ should_draft = FALSE
    /\ rendered = << >>
    /\ draftShown = FALSE
    /\ recipients = << >>
    /\ httpCalls = 0
    /\ genCalls = 0
    /\ tokenReads = 0
    /\ logErrors = 0
    /\ userMsg = "none"
    /\ response = NoResponse
    /\ ownerCalls = 0
    /\ genResult = "none"
    /\ promptAnswer = "none"
    /\ trackedFiles \in TrackedSamples
    /\ gitRc \in [GitQueries -> GitStatuses]
    /\ (gitRc["diff"] # 0 => repoDiff = "")
    /\ (gitRc["staged"] # 0 => repoStaged = << >>)
    /\ (gitRc["ls-files"] # 0 <=> trackedFiles[1].name = "")
    /\ history = NoHistory
    /\ ownerLog = << >>
    /\ SessionIdle
    /\ terminal = "running"
    /\ exitCode = -1

\* the process ends: sys.exit(code), return from main, or an uncaught exception
Exit(how, code) ==
    /\ pc' = "exit"
    /\ terminal' = how
    /\ exitCode' = code

Goto(next) ==
    /\ pc' = next
    /\ UNCHANGED << terminal, exitCode >>


(***************************************************************************)
(* crisk.py: the local-direct pipeline                                     *)
(***************************************************************************)

\* module level, lines 17-24: both API keys must be set
LoadModule ==
    /\ impl = "local" /\ pc = "start"
    /\ IF keysSet
       THEN Goto("extract") /\ UNCHANGED userMsg
       ELSE Exit("ConfigError", 1) /\ userMsg' = "missing-keys"
    /\ UNCHANGED << envVars, promptAnswer, response, ownerCalls, genResult,
                    diff, staged_files, codebase, snapshotBuilt, related,
                    draft_message, ownerIdx, should_draft, rendered, draftShown,
                    recipients, httpCalls, genCalls, tokenReads, logErrors >>

\* step 1 testing the diff only
MainExtractChange_DiffOnly ==
    /\ impl = "local" /\ pc = "extract"
    /\ diff' = repoDiff
    /\ staged_files' = repoStaged
    /\ IF repoDiff = ""
       THEN Exit("NoChange", 1) /\ userMsg' = "no-staged-changes"
       ELSE Goto("snapshot") /\ UNCHANGED userMsg
    /\ UNCHANGED << envVars, promptAnswer, response, ownerCalls, genResult, codebase,
                    snapshotBuilt, related, draft_message, ownerIdx, should_draft,
                    rendered, draftShown, recipients, httpCalls, genCalls,
                    tokenReads, logErrors >>

\* main, step 1 (lines 192-203)
MainExtractChange ==
    /\ impl = "local" /\ pc = "extract"
    /\ diff' = repoDiff
    /\ staged_files' = repoStaged
    /\ IF repoDiff = "" \/ repoStaged = << >>
       THEN Exit("NoChange", 1) /\ userMsg' = "no-staged-changes"
       ELSE Goto("snapshot") /\ UNCHANGED userMsg
    /\ UNCHANGED << envVars, promptAnswer, response, ownerCalls, genResult,
                    codebase, snapshotBuilt, related, draft_message,
                    ownerIdx, should_draft, rendered, draftShown, recipients,
                    httpCalls, genCalls, tokenReads, logErrors >>

\* main, step 2 (lines 205-208)
MainBuildSnapshot ==
    /\ impl = "local" /\ pc = "snapshot"
    /\ codebase' = get_codebase_files(trackedFiles, ExcludedLocal)
    /\ snapshotBuilt' = TRUE
    /\ Goto("rank")
    /\ UNCHANGED << envVars, promptAnswer, response, ownerCalls, genResult,
                    diff, staged_files, related, draft_message, ownerIdx,
                    should_draft, rendered, draftShown, recipients, httpCalls,
                    genCalls, tokenReads, logErrors, userMsg >>

\* rank_related_files without the status test
rank_related_files_NoStatusCheck(o, staged) ==
    IF o.kind # "response" THEN [raised |-> TRUE, list |-> << >>]
    ELSE IF o.body.shape # "object" THEN [raised |-> TRUE, list |-> << >>]
    ELSE [raised |-> FALSE, list |-> WithNoOwner(FilterRelated(o.body.list, staged))]

\* rank_related_files from requests.post on (lines 100-113); raised: an
\* exception leaves the function
rank_related_files(o, staged) ==
    IF o.kind # "response" THEN [raised |-> TRUE, list |-> << >>]
    ELSE IF o.status # 200 THEN [raised |-> FALSE, list |-> << >>]
    ELSE IF o.body.shape # "object" THEN [raised |-> TRUE, list |-> << >>]
    ELSE [raised |-> FALSE, list |-> WithNoOwner(FilterRelated(o.body.list, staged))]

\* main, step 3 (lines 210-217)
MainRankRelated ==
    /\ impl = "local" /\ pc = "rank"
    /\ httpCalls' = httpCalls + 1
    /\ \E o \in LocalHttpOutcomes :
          LET r == rank_related_files(o, staged_files)
          IN  /\ response' = o
              /\ IF r.raised
                 THEN Exit("Crashed", 1) /\ UNCHANGED << related, ownerIdx >>
                 ELSE /\ related' = r.list
                      /\ IF r.list = << >>
                         THEN Exit("NoneRelated", 0) /\ UNCHANGED ownerIdx
                         ELSE Goto("owners") /\ ownerIdx' = 1
    /\ UNCHANGED << envVars, promptAnswer, ownerCalls, genResult,
                    diff, staged_files, codebase, snapshotBuilt,
                    draft_message, should_draft, rendered, draftShown, recipients,
                    genCalls, tokenReads, logErrors, userMsg >>

\* one iteration of the owner loop in which an exception of the blame query
\* is not caught
ResolveOneOwner_Raises ==
    /\ ownerIdx \in 1..Len(related)
    /\ ownerCalls' = ownerCalls + 1
    /\ IF blame[related[ownerIdx].filename].kind = "raise"
       THEN Exit("Crashed", 1) /\ UNCHANGED << related, ownerIdx >>
       ELSE /\ related' = [related EXCEPT ![ownerIdx].owner =
                              get_file_owner(blame[related[ownerIdx].filename])]
            /\ IF ownerIdx = Len(related)
               THEN Goto("display") /\ ownerIdx' = 0
               ELSE Goto("owners") /\ ownerIdx' = ownerIdx + 1

\* one iteration of the owner loop (crisk.py 221-222, check.py 279-280)
ResolveOneOwner ==
    /\ ownerIdx \in 1..Len(related)
    /\ ownerCalls' = ownerCalls + 1
    /\ related' = [related EXCEPT ![ownerIdx].owner =
                      get_file_owner(blame[related[ownerIdx].filename])]
    /\ IF ownerIdx = Len(related)
       THEN Goto("display") /\ ownerIdx' = 0
       ELSE Goto("owners") /\ ownerIdx' = ownerIdx + 1

\* main, step 4 (lines 219-222)
MainResolveOwner ==
    /\ impl = "local" /\ pc = "owners"
    /\ ResolveOneOwner
    /\ UNCHANGED << envVars, promptAnswer, response, genResult,
                    diff, staged_files, codebase, snapshotBuilt,
                    draft_message, should_draft, rendered, draftShown, recipients,
                    httpCalls, genCalls, tokenReads, logErrors, userMsg >>

\* the report printed from the last entry to the first
MainDisplay_Reversed ==
    /\ impl = "local" /\ pc = "display"
    /\ rendered' = [i \in 1..Len(related) |-> related[Len(related) + 1 - i]]
    /\ Goto("prompt")
    /\ UNCHANGED << envVars, promptAnswer, response, ownerCalls, genResult,
                    diff, staged_files, codebase, snapshotBuilt, related,
                    draft_message, ownerIdx, should_draft, draftShown, recipients,
                    httpCalls, genCalls, tokenReads, logErrors, userMsg >>

\* main, step 5 (lines 224-234)
MainDisplay ==
    /\ impl = "local" /\ pc = "display"
    /\ rendered' = related
    /\ Goto("prompt")
    /\ UNCHANGED << envVars, promptAnswer, response, ownerCalls, genResult,
                    diff, staged_files, codebase, snapshotBuilt, related,
                    draft_message, ownerIdx, should_draft, draftShown, recipients,
                    httpCalls, genCalls, tokenReads, logErrors, userMsg >>

\* the decision with every answer but "n" taken as a confirmation
MainPrompt_DefaultYes ==
    /\ impl = "local" /\ pc = "prompt"
    /\ IF auto_draft
       THEN should_draft' = TRUE /\ UNCHANGED promptAnswer
       ELSE \E a \in PromptAnswers :
               promptAnswer' = a /\ should_draft' = (a # "n")
    /\ Goto("draft")
    /\ UNCHANGED << envVars, response, ownerCalls, genResult,
                    diff, staged_files, codebase, snapshotBuilt, related,
                    draft_message, ownerIdx, rendered, draftShown, recipients,
                    httpCalls, genCalls, tokenReads, logErrors, userMsg >>

\* main, step 6, the decision (lines 236-243); the answer is the input
\* stripped and lower-cased, "EOF" stands for the EOFError of input()
MainPrompt ==
    /\ impl = "local" /\ pc = "prompt"
    /\ IF auto_draft
       THEN should_draft' = TRUE /\ UNCHANGED promptAnswer
       ELSE \E a \in PromptAnswers :
               promptAnswer' = a /\ should_draft' = (a = "y")
    /\ Goto("draft")
    /\ UNCHANGED << envVars, response, ownerCalls, genResult,
                    diff, staged_files, codebase, snapshotBuilt, related,
                    draft_message, ownerIdx, rendered, draftShown, recipients,
                    httpCalls, genCalls, tokenReads, logErrors, userMsg >>

\* the draft step asking again when the generation fails
MainGenerateDraft_Retry ==
    /\ impl = "local" /\ pc = "draft"
    /\ IF should_draft
       THEN /\ genCalls' = genCalls + 1
            /\ \E g \in GenOutcomes :
                  /\ genResult' = g
                  /\ IF g = "ok"
                     THEN /\ draftShown' = TRUE
                          /\ recipients' = GroupByOwner(related)
                          /\ Exit("Done", 0)
                     ELSE /\ Goto("prompt")
                          /\ UNCHANGED << draftShown, recipients >>
       ELSE /\ Exit("Done", 0)
            /\ UNCHANGED << genCalls, genResult, draftShown, recipients >>
    /\ UNCHANGED << envVars, promptAnswer, response, ownerCalls,
                    diff, staged_files, codebase, snapshotBuilt, related,
                    draft_message, ownerIdx, should_draft, rendered, httpCalls,
                    tokenReads, logErrors, userMsg >>

\* main, step 6, the draft (lines 245-267) with generate_draft_message (143-177)
MainGenerateDraft ==
    /\ impl = "local" /\ pc = "draft"
    /\ IF should_draft
       THEN /\ genCalls' = genCalls + 1
            /\ \E g \in GenOutcomes :
                  /\ genResult' = g
                  /\ IF g = "ok"
                     THEN /\ draftShown' = TRUE
                          /\ recipients' = GroupByOwner(related)
                          /\ Exit("Done", 0)
                     ELSE /\ Exit("Crashed", 1)
                          /\ UNCHANGED << draftShown, recipients >>
       ELSE /\ Exit("Done", 0)
            /\ UNCHANGED << genCalls, genResult, draftShown, recipients >>
    /\ UNCHANGED << envVars, promptAnswer, response, ownerCalls,
                    diff, staged_files, codebase, snapshotBuilt, related,
                    draft_message, ownerIdx, should_draft, rendered, httpCalls,
                    tokenReads, logErrors, userMsg >>


(***************************************************************************)
(* crisk/cli.py main -> crisk/check.py run_check: the remote pipeline      *)
(***************************************************************************)

\* the authentication check removing a token file it finds unusable
CheckAuth_ClearsToken ==
    /\ impl = "remote" /\ pc = "start"
    /\ tokenReads' = tokenReads + 1
    /\ IF is_authenticated(tokenFile)
       THEN Goto("extract") /\ UNCHANGED << logErrors, userMsg, tokenFile >>
       ELSE /\ Exit("Unauthenticated", 1)
            /\ logErrors' = logErrors + 1
            /\ userMsg' = "not-authenticated"
            /\ tokenFile' = "absent"
    /\ UNCHANGED << impl, keysSet, repoDiff, repoStaged, blame, auto_draft,
                    trackedFiles, history, ownerLog, gitRc, sessionVars,
                    promptAnswer, response, ownerCalls, genResult,
                    diff, staged_files, codebase, snapshotBuilt, related,
                    draft_message, ownerIdx, should_draft, rendered, draftShown,
                    recipients, httpCalls, genCalls >>

\* run_check, lines 220-230: the authentication check
CheckAuth ==
    /\ impl = "remote" /\ pc = "start"
    /\ tokenReads' = tokenReads + 1
    /\ IF is_authenticated(tokenFile)
       THEN Goto("extract") /\ UNCHANGED << logErrors, userMsg >>
       ELSE /\ Exit("Unauthenticated", 1)
            /\ logErrors' = logErrors + 1
            /\ userMsg' = "not-authenticated"
    /\ UNCHANGED << envVars, promptAnswer, response, ownerCalls, genResult,
                    diff, staged_files, codebase, snapshotBuilt, related,
                    draft_message, ownerIdx, should_draft, rendered, draftShown,
                    recipients, httpCalls, genCalls >>

\* step 1 stopping only when the diff and the file list are both empty
CheckExtractChange_Both ==
    /\ impl = "remote" /\ pc = "extract"
    /\ diff' = repoDiff
    /\ staged_files' = repoStaged
    /\ IF repoDiff = "" /\ repoStaged = << >>
       THEN Exit("NoChange", 1) /\ userMsg' = "no-staged-changes"
       ELSE Goto("snapshot") /\ UNCHANGED userMsg
    /\ UNCHANGED << envVars, promptAnswer, response, ownerCalls, genResult, codebase,
                    snapshotBuilt, related, draft_message, ownerIdx, should_draft,
                    rendered, draftShown, recipients, httpCalls, genCalls,
                    tokenReads, logErrors >>

\* run_check, step 1 (lines 232-245)
CheckExtractChange ==
    /\ impl = "remote" /\ pc = "extract"
    /\ diff' = repoDiff
    /\ staged_files' = repoStaged
    /\ IF repoDiff = "" \/ repoStaged = << >>
       THEN Exit("NoChange", 1) /\ userMsg' = "no-staged-changes"
       ELSE Goto("snapshot") /\ UNCHANGED userMsg
    /\ UNCHANGED << envVars, promptAnswer, response, ownerCalls, genResult,
                    codebase, snapshotBuilt, related, draft_message,
                    ownerIdx, should_draft, rendered, draftShown, recipients,
                    httpCalls, genCalls, tokenReads, logErrors >>

\* run_check, step 3 (lines 254-258)
CheckBuildSnapshot ==
    /\ impl = "remote" /\ pc = "snapshot"
    /\ codebase' = get_codebase_files(trackedFiles, ExcludedRemote)
    /\ snapshotBuilt' = TRUE
    /\ Goto("rank")
    /\ UNCHANGED << envVars, promptAnswer, response, ownerCalls, genResult,
                    diff, staged_files, related, draft_message, ownerIdx,
                    should_draft, rendered, draftShown, recipients, httpCalls,
                    genCalls, tokenReads, logErrors, userMsg >>

\* analyze_via_backend without the test of the other non-200 statuses
analyze_via_backend_FallThrough(o) ==
    IF o.kind = "ConnectionError"
    THEN [ok |-> FALSE, body |-> NoBody, logged |-> TRUE, msg |-> "cannot-connect"]
    ELSE IF o.kind = "Timeout"
    THEN [ok |-> FALSE, body |-> NoBody, logged |-> TRUE, msg |-> "timed-out"]
    ELSE IF o.kind = "OtherError"
    THEN [ok |-> FALSE, body |-> NoBody, logged |-> TRUE, msg |-> "error"]
    ELSE IF o.status = 401
    THEN [ok |-> FALSE, body |-> NoBody, logged |-> TRUE, msg |-> "auth-expired"]
    ELSE IF o.body.shape = "invalid"
    THEN [ok |-> FALSE, body |-> NoBody, logged |-> TRUE, msg |-> "error"]
    ELSE [ok |-> TRUE, body |-> o.body, logged |-> FALSE, msg |-> "none"]

\* analyze_via_backend from requests.post on (lines 169-209): the value
\* returned (ok = FALSE is None), whether log_error ran, what was printed
analyze_via_backend(o) ==
    IF o.kind = "ConnectionError"
    THEN [ok |-> FALSE, body |-> NoBody, logged |-> TRUE, msg |-> "cannot-connect"]
    ELSE IF o.kind = "Timeout"
    THEN [ok |-> FALSE, body |-> NoBody, logged |-> TRUE, msg |-> "timed-out"]
    ELSE IF o.kind = "OtherError"
    THEN [ok |-> FALSE, body |-> NoBody, logged |-> TRUE, msg |-> "error"]
    ELSE IF o.status = 401
    THEN [ok |-> FALSE, body |-> NoBody, logged |-> TRUE, msg |-> "auth-expired"]
    ELSE IF o.status # 200
    THEN [ok |-> FALSE, body |-> NoBody, logged |-> TRUE, msg |-> "backend-error"]
    ELSE IF o.body.shape = "invalid"
    THEN [ok |-> FALSE, body |-> NoBody, logged |-> TRUE, msg |-> "error"]
    ELSE [ok |-> TRUE, body |-> o.body, logged |-> FALSE, msg |-> "none"]

\* run_check, step 4 (lines 260-275) with analyze_via_backend (lines 124-209)
CheckAnalyze ==
    /\ impl = "remote" /\ pc = "rank"
    /\ tokenReads' = tokenReads + 1
    /\ IF load_token(tokenFile) \in {"None", ""}
       THEN /\ Exit("Unauthenticated", 1)
            /\ logErrors' = logErrors + 1
            /\ userMsg' = "not-authenticated"
            /\ UNCHANGED << httpCalls, response, related, draft_message, ownerIdx >>
       ELSE /\ httpCalls' = httpCalls + 1
            /\ \E o \in HttpOutcomes :
                  LET a == analyze_via_backend(o)
                  IN  /\ response' = o
                      /\ logErrors' = IF a.logged THEN logErrors + 1 ELSE logErrors
                      /\ userMsg' = a.msg
                      /\ IF ~a.ok \/ ~Truthy(a.body)
                         THEN /\ Exit("BackendFailed", 1)
                              /\ UNCHANGED << related, draft_message, ownerIdx >>
                         ELSE IF a.body.shape # "object"
                         THEN /\ Exit("Crashed", 1)
                              /\ UNCHANGED << related, draft_message, ownerIdx >>
                         ELSE /\ related' = WithNoOwner(a.body.list)
                              /\ draft_message' = a.body.draft
                              /\ IF a.body.list = << >>
                                 THEN Exit("NoneRelated", 0) /\ UNCHANGED ownerIdx
                                 ELSE Goto("owners") /\ ownerIdx' = 1
    /\ UNCHANGED << envVars, promptAnswer, ownerCalls, genResult,
                    diff, staged_files, codebase, snapshotBuilt,
                    should_draft, rendered, draftShown, recipients, genCalls >>

\* run_check, step 5 (lines 277-280)
CheckResolveOwner ==
    /\ impl = "remote" /\ pc = "owners"
    /\ ResolveOneOwner
    /\ UNCHANGED << envVars, promptAnswer, response, genResult,
                    diff, staged_files, codebase, snapshotBuilt,
                    draft_message, should_draft, rendered, draftShown, recipients,
                    httpCalls, genCalls, tokenReads, logErrors, userMsg >>

\* run_check, step 6 (lines 282-293)
CheckDisplay ==
    /\ impl = "remote" /\ pc = "display"
    /\ rendered' = related
    /\ Goto("draft")
    /\ UNCHANGED << envVars, promptAnswer, response, ownerCalls, genResult,
                    diff, staged_files, codebase, snapshotBuilt, related,
                    draft_message, ownerIdx, should_draft, draftShown, recipients,
                    httpCalls, genCalls, tokenReads, logErrors, userMsg >>

\* run_check, step 7 (lines 295-342); cli.main exits with the value returned
CheckDraft ==
    /\ impl = "remote" /\ pc = "draft"
    /\ \E a \in IF auto_draft THEN {"none"} ELSE PromptAnswers :
          LET show == IF auto_draft THEN draft_message # ""
                      ELSE a = "y" /\ draft_message # ""
          IN  /\ promptAnswer' = a
              /\ draftShown' = show
              /\ recipients' = IF show THEN GroupByOwner(related) ELSE recipients
    /\ Exit("Done", 0)
    /\ UNCHANGED << envVars, response, ownerCalls, genResult,
                    diff, staged_files, codebase, snapshotBuilt, related,
                    draft_message, ownerIdx, should_draft, rendered, httpCalls,
                    genCalls, tokenReads, logErrors, userMsg >>

Next ==
    \/ LoadModule
    \/ MainExtractChange
    \/ MainBuildSnapshot
    \/ MainRankRelated
    \/ MainResolveOwner
    \/ MainDisplay
    \/ MainPrompt
    \/ MainGenerateDraft
    \/ CheckAuth
    \/ CheckExtractChange
    \/ CheckBuildSnapshot
    \/ CheckAnalyze
    \/ CheckResolveOwner
    \/ CheckDisplay
    \/ CheckDraft

Spec == Init /\ [][Next]_vars

TypeOK ==
    /\ pc \in {"start", "extract", "snapshot", "rank", "owners", "display",
               "prompt", "draft", "exit"}
    /\ exitCode \in {-1, 0, 1}
    /\ terminal \in {"running", "ConfigError", "Unauthenticated", "NoChange",
                     "NoneRelated", "BackendFailed", "Crashed", "Done"}


(***************************************************************************)
(* get_file_owner against commit-level authorship histories                *)
(***************************************************************************)
\* The lines of a file in order, each attributed to a commit, and each
\* commit to one author.
Commits == {"c1", "c2", "c3"}

CommitAuthor ==
    [c \in Commits |-> IF c = "c1" THEN "alice@example.com" ELSE "bob@example.com"]

OwnerPaths == {"p.py", "q.py"}

Seqs(S, n) == UNION { [1..k -> S] : k \in 0..n }

\* every attribution of up to MaxLines lines, and two runs of lines of one
\* commit each (such as 5 lines of one author followed by 3 of another)
CommitLists ==
    Seqs(Commits, MaxLines)
    \cup { Rep2(c[1], k1, c[2], k2) :
             c \in { d \in Commits \X Commits : d[1] # d[2] },
             k1 \in 1..MaxBlock, k2 \in 1..MaxBlockTail }

HistorySamples ==
    { [kind |-> "raise", rc |-> 0, commits |-> << >>],
      [kind |-> "exit", rc |-> 128, commits |-> << >>] }
    \cup { [kind |-> "exit", rc |-> 0, commits |-> cs] : cs \in CommitLists }

FewHistories ==
    { [kind |-> "raise", rc |-> 0, commits |-> << >>],
      [kind |-> "exit", rc |-> 128, commits |-> << >>],
      [kind |-> "exit", rc |-> 0, commits |-> << >>],
      [kind |-> "exit", rc |-> 0, commits |-> <<"c2">>] }

\* the commit of line i shows up at line i for the first time
FirstTime(commits, i) == \A j \in 1..(i - 1) : commits[j] # commits[i]

\* what `git blame --porcelain` prints: per line of the file a header line
\* and the content line, and the commit's information (its author-mail line
\* included) only the first time the commit shows up
RECURSIVE PorcelainFrom(_, _)
PorcelainFrom(commits, i) ==
    IF i > Len(commits) THEN << >>
    ELSE <<"other">>
         \o (IF FirstTime(commits, i) THEN << CommitAuthor[commits[i]] >> ELSE << >>)
         \o <<"other">>
         \o PorcelainFrom(commits, i + 1)

Porcelain(commits) == PorcelainFrom(commits, 1)

BlameOf(h) == [kind |-> h.kind, rc |-> h.rc, lines |-> Porcelain(h.commits)]

\* the variables of the pipeline, held at their values before a run
PipelineIdle ==
    /\ keysSet = FALSE
    /\ gitRc = GitAllOk
    /\ repoDiff = ""
    /\ repoStaged = << >>
    /\ blame = [f \in Files |-> [kind |-> "exit", rc |-> 0, lines |-> << >>]]
    /\ auto_draft = FALSE
    /\ pc = "start"
    /\ diff = ""
    /\ staged_files = << >>
    /\ snapshotBuilt = FALSE
    /\ related = << >>
    /\ draft_message = ""
    /\ ownerIdx = 0
    /\ should_draft = FALSE
    /\ rendered = << >>
    /\ draftShown = FALSE
    /\ recipients = << >>
    /\ httpCalls = 0
    /\ genCalls = 0
    /\ tokenReads = 0
    /\ logErrors = 0
    /\ userMsg = "none"
    /\ response = NoResponse
    /\ ownerCalls = 0
    /\ genResult = "none"
    /\ promptAnswer = "none"
    /\ terminal = "running"
    /\ exitCode = -1

InitOwner ==
    /\ PipelineIdle
    /\ SessionIdle
    /\ tokenFile = "absent"
    /\ impl \in {"local", "remote"}
    /\ trackedFiles = << >>
    /\ codebase = << >>
    /\ history \in { h \in [OwnerPaths -> HistorySamples] : h["q.py"] \in FewHistories }
    /\ ownerLog = << >>

\* one call whose dict of counts is shared with the earlier calls: the
\* author-mail lines of every earlier output are counted again
OwnerCall_SharedAuthors(p) ==
    LET earlier(i) == BlameOf(history[ownerLog[i].path])
        counted(i) == IF earlier(i).kind = "exit" /\ earlier(i).rc = 0
                      THEN earlier(i).lines ELSE << >>
        RECURSIVE upTo(_)
        upTo(i) == IF i = 0 THEN << >> ELSE upTo(i - 1) \o counted(i)
        out == BlameOf(history[p])
        shared == [out EXCEPT !.lines = upTo(Len(ownerLog)) \o out.lines]
    IN  /\ Len(ownerLog) < MaxCalls
        /\ ownerLog' = Append(ownerLog, [path |-> p, owner |-> get_file_owner(shared)])
        /\ UNCHANGED << impl, keysSet, tokenFile, repoDiff, repoStaged, blame,
                        auto_draft, trackedFiles, history, pc, diff, staged_files,
                        codebase, snapshotBuilt, related, draft_message, ownerIdx,
                        should_draft, rendered, draftShown, recipients, httpCalls,
                        genCalls, tokenReads, logErrors, userMsg, response,
                        ownerCalls, genResult, promptAnswer, gitRc, sessionVars,
                    terminal, exitCode >>

\* one call get_file_owner(p): git blame reads the history, the counts are
\* kept in a dict local to the call
OwnerCall(p) ==
    /\ Len(ownerLog) < MaxCalls
    /\ ownerLog' = Append(ownerLog, [path |-> p,
                                     owner |-> get_file_owner(BlameOf(history[p]))])
    /\ UNCHANGED << impl, keysSet, tokenFile, repoDiff, repoStaged, blame,
                    auto_draft, trackedFiles, history, pc, diff, staged_files,
                    codebase, snapshotBuilt, related, draft_message, ownerIdx,
                    should_draft, rendered, draftShown, recipients, httpCalls,
                    genCalls, tokenReads, logErrors, userMsg, response,
                    ownerCalls, genResult, promptAnswer, gitRc, sessionVars,
                    terminal, exitCode >>

NextOwner == \E p \in OwnerPaths : OwnerCall(p)

SpecOwner == InitOwner /\ [][NextOwner]_vars

(***************************************************************************)
(* get_codebase_files against tracked-file listings                        *)
(***************************************************************************)
\* a tracked file: the path listed, the suffix endswith() sees, what open()
\* and read() do, and the length of the content read
FileSamples ==
    { [name |-> "a.py", ext |-> ".py", io |-> "ok", len |-> 10],
      [name |-> "b.py", ext |-> ".py", io |-> "ok", len |-> ContentCeiling],
      [name |-> "c.py", ext |-> ".py", io |-> "ok", len |-> ContentCeiling + 1],
      [name |-> "d.py", ext |-> ".py", io |-> "error", len |-> 0],
      [name |-> "img.png", ext |-> ".png", io |-> "ok", len |-> 900],
      [name |-> "poetry.lock", ext |-> ".lock", io |-> "ok", len |-> 40] }

\* `git ls-files` printing nothing: split('\n') gives one empty string
EmptyListing == << [name |-> "", ext |-> "", io |-> "error", len |-> 0] >>

\* the listings of up to MaxTracked lines; a path is listed once per index
\* entry, so an unmerged path is listed more than once
TrackedListings ==
    { EmptyListing } \cup UNION { [1..k -> FileSamples] : k \in 1..MaxTracked }

ExcludedOf(i) == IF i = "local" THEN ExcludedLocal ELSE ExcludedRemote

InitSnapshot ==
    /\ PipelineIdle
    /\ SessionIdle
    /\ tokenFile = "absent"
    /\ impl \in {"local", "remote"}
    /\ trackedFiles \in TrackedListings
    /\ codebase = << >>
    /\ history = NoHistory
    /\ ownerLog = << >>

\* one call get_codebase_files()
SnapshotCall ==
    /\ ~snapshotBuilt
    /\ snapshotBuilt' = TRUE
    /\ codebase' = get_codebase_files(trackedFiles, ExcludedOf(impl))
    /\ UNCHANGED << impl, keysSet, tokenFile, repoDiff, repoStaged, blame,
                    auto_draft, trackedFiles, history, ownerLog, pc, diff,
                    staged_files, related, draft_message, ownerIdx,
                    should_draft, rendered, draftShown, recipients, httpCalls,
                    genCalls, tokenReads, logErrors, userMsg, response,
                    ownerCalls, genResult, promptAnswer, gitRc, sessionVars,
                    terminal, exitCode >>

NextSnapshot == SnapshotCall

SpecSnapshot == InitSnapshot /\ [][NextSnapshot]_vars

(***************************************************************************)
(* crisk login, crisk logout, crisk check: a session                       *)
(***************************************************************************)
\* seconds one handle_request() takes when a callback arrives, from an
\* immediate one to one served just after the listener's timeout
RequestDelays == {1, 60, ServerTimeout + 1}

\* seconds one handle_request() takes when no callback arrives
IdleDelays == {ServerTimeout, ServerTimeout + 1}

\* past this value the elapsed time is no longer told apart
ClockCap == LoginDeadline + ServerTimeout + 1

Elapsed(c, d) == IF c + d > ClockCap THEN ClockCap ELSE c + d

\* the deadline test never true
TimedOut_Never(c) == FALSE

\* login, line 195
TimedOut(c) == c > LoginDeadline

\* AuthCallbackHandler.do_GET: the class attributes after the request and
\* the status answered
do_GET(req, tok, err) ==
    IF req.kind = "token" THEN [token |-> req.value, error |-> err, status |-> 200]
    ELSE IF req.kind = "error" THEN [token |-> tok, error |-> req.value, status |-> 400]
    ELSE [token |-> tok, error |-> err, status |-> 400]

\* the variables of the pipeline but the token file
pipelineVars ==
    << impl, pc, keysSet, repoDiff, repoStaged, blame, auto_draft, diff,
       staged_files, codebase, snapshotBuilt, related, draft_message, ownerIdx,
       should_draft, rendered, draftShown, recipients, httpCalls, genCalls,
       tokenReads, logErrors, userMsg, response, ownerCalls, genResult,
       promptAnswer, trackedFiles, history, ownerLog, gitRc, terminal, exitCode >>

InitSession ==
    /\ PipelineIdle
    /\ SessionIdle
    /\ impl = "remote"
    /\ tokenFile \in TokenFiles
    /\ trackedFiles = EmptyListing
    /\ codebase = << >>
    /\ history = NoHistory
    /\ ownerLog = << >>

\* login up to the wait loop (lines 165-192)
LoginStart ==
    /\ loginPc = "idle"
    /\ lastCmd' = "login"
    /\ tokenBefore' = tokenFile
    /\ serverOpen' = TRUE
    /\ handlerToken' = "None"
    /\ handlerError' = "None"
    /\ clock' = 0
    /\ loginResult' = "none"
    /\ lastRequest' = NoRequest
    /\ loginPc' = "wait"
    /\ UNCHANGED << tokenFile, lastCheck, loggedOut, pipelineVars >>

\* one iteration of the wait loop in which a callback with neither token nor
\* error is recorded as an error
LoginHandleRequest_NeitherIsError ==
    /\ loginPc = "wait"
    /\ handlerToken = "None" /\ handlerError = "None"
    /\ \/ \E req \in CallbackRequests : \E d \in RequestDelays :
             LET h == do_GET(req, handlerToken, handlerError)
             IN  /\ handlerToken' = h.token
                 /\ handlerError' = IF req.kind = "neither" THEN "bad-request" ELSE h.error
                 /\ lastRequest' = [kind |-> req.kind, value |-> req.value,
                                    status |-> h.status]
                 /\ clock' = Elapsed(clock, d)
       \/ \E d \in IdleDelays :
             /\ clock' = Elapsed(clock, d)
             /\ UNCHANGED << handlerToken, handlerError, lastRequest >>
    /\ IF TimedOut(clock')
       THEN serverOpen' = FALSE /\ loginResult' = "False" /\ loginPc' = "idle"
       ELSE UNCHANGED << serverOpen, loginResult, loginPc >>
    /\ UNCHANGED << tokenFile, tokenBefore, lastCmd, lastCheck, loggedOut,
                    pipelineVars >>

\* one iteration of the wait loop (lines 193-198): handle_request() serves
\* one callback or times out, then the deadline is tested
LoginHandleRequest ==
    /\ loginPc = "wait"
    /\ handlerToken = "None" /\ handlerError = "None"
    /\ \/ \E req \in CallbackRequests : \E d \in RequestDelays :
             LET h == do_GET(req, handlerToken, handlerError)
             IN  /\ handlerToken' = h.token
                 /\ handlerError' = h.error
                 /\ lastRequest' = [kind |-> req.kind, value |-> req.value,
                                    status |-> h.status]
                 /\ clock' = Elapsed(clock, d)
       \/ \E d \in IdleDelays :
             /\ clock' = Elapsed(clock, d)
             /\ UNCHANGED << handlerToken, handlerError, lastRequest >>
    /\ IF TimedOut(clock')
       THEN serverOpen' = FALSE /\ loginResult' = "False" /\ loginPc' = "idle"
       ELSE UNCHANGED << serverOpen, loginResult, loginPc >>
    /\ UNCHANGED << tokenFile, tokenBefore, lastCmd, lastCheck, loggedOut,
                    pipelineVars >>

\* login after the loop (lines 200-212), with save_token (31-36)
LoginFinish ==
    /\ loginPc = "wait"
    /\ handlerToken # "None" \/ handlerError # "None"
    /\ serverOpen' = FALSE
    /\ loginPc' = "idle"
    /\ IF handlerError # "None"
       THEN loginResult' = "False" /\ UNCHANGED << tokenFile, loggedOut >>
       ELSE /\ tokenFile' = handlerToken
            /\ loginResult' = "True"
            /\ loggedOut' = FALSE
    /\ UNCHANGED << handlerToken, handlerError, clock, lastRequest, tokenBefore,
                    lastCmd, lastCheck, pipelineVars >>

\* cli.main, command logout (cli.py 33-36), with logout and delete_token
SessionLogout ==
    /\ loginPc = "idle"
    /\ lastCmd' = "logout"
    /\ tokenBefore' = tokenFile
    /\ tokenFile' = "absent"
    /\ loggedOut' = TRUE
    /\ UNCHANGED << loginPc, handlerToken, handlerError, clock, serverOpen,
                    loginResult, lastRequest, lastCheck, pipelineVars >>

\* cli.main, command check (cli.py 38-42): the authentication check of
\* run_check (check.py 226-230); the steps after it leave the token file alone
SessionCheck ==
    /\ loginPc = "idle"
    /\ lastCmd' = "check"
    /\ tokenBefore' = tokenFile
    /\ lastCheck' = IF is_authenticated(tokenFile) THEN "ran" ELSE "unauthenticated"
    /\ UNCHANGED << tokenFile, loginPc, handlerToken, handlerError, clock,
                    serverOpen, loginResult, lastRequest, loggedOut, pipelineVars >>

NextSession ==
    \/ LoginStart
    \/ LoginHandleRequest
    \/ LoginFinish
    \/ SessionLogout
    \/ SessionCheck

SpecSession == InitSession /\ [][NextSession]_vars

\* the process running login keeps running
SpecSessionFair ==
    SpecSession /\ WF_vars(LoginHandleRequest) /\ WF_vars(LoginFinish)

(***************************************************************************)
(* Properties                                                              *)
(***************************************************************************)

\* main or run_check is entered (crisk.py stops at import without its keys)
RunsPipeline == impl = "local" => keysSet

NoTokenStored == tokenFile \in {"absent", "", " "}

NoCollaboratorCall == httpCalls = 0 /\ genCalls = 0

\* s can be obtained from t by deleting entries
RECURSIVE IsSubseqFrom(_, _, _, _)
IsSubseqFrom(s, i, t, j) ==
    IF i > Len(s) THEN TRUE
    ELSE IF j > Len(t) THEN FALSE
    ELSE IF s[i] = t[j] THEN IsSubseqFrom(s, i + 1, t, j + 1)
    ELSE IsSubseqFrom(s, i, t, j + 1)

IsSubseq(s, t) == IsSubseqFrom(s, 1, t, 1)

\* no staged path, every score above the threshold, at most MaxRelated entries
ReportOK(rep, staged) ==
    /\ Len(rep) <= MaxRelated
    /\ \A i \in 1..Len(rep) :
          /\ ~InSeq(rep[i].filename, staged)
          /\ rep[i].score > ScoreThreshold

HttpRaised == response.kind \in {"ConnectionError", "Timeout", "OtherError"}
Answered(st) == response.kind = "response" /\ response.status = st
AnsweredNon200 == response.kind = "response" /\ response.status # 200

\* C1 as stated: in every run of main or run_check whose staged-file list is
\* empty, no collaborator is ever called and the run ends in NoChange.
C1_EmptyStagedEndsInNoChange ==
    (RunsPipeline /\ repoStaged = << >>) =>
        /\ NoCollaboratorCall
        /\ (pc = "exit" => terminal = "NoChange")

\* C1 amended: in every run whose staged-file list is empty no collaborator
\* is ever called; the run ends in NoChange, except that run_check with no
\* token stored ends as unauthenticated before the change set is read.
C1_EmptyStagedNoCalls ==
    (RunsPipeline /\ repoStaged = << >>) =>
        /\ NoCollaboratorCall
        /\ (pc = "exit" =>
               terminal = IF impl = "remote" /\ NoTokenStored
                          THEN "Unauthenticated" ELSE "NoChange")

C1_Witness ==
    /\ pc = "exit" /\ terminal = "NoChange"
    /\ staged_files = << >> /\ diff = "diff"

\* C2: in the local pipeline the related list returned by rank_related_files
\* and the report rendered by main hold no staged path, no score <= 0.3 and
\* at most 10 entries; results [(b.py, 0.9), (c.py, 0.2)] with b.py staged
\* give the empty list.
C2_LocalReportFiltered ==
    impl = "local" =>
        /\ ReportOK(related, staged_files)
        /\ ReportOK(rendered, staged_files)
        /\ ( /\ Answered(200)
             /\ response.body.list = << [filename |-> "b.py", score |-> 90],
                                        [filename |-> "c.py", score |-> 20] >>
             /\ staged_files = <<"b.py">>
             => related = << >> /\ terminal = "NoneRelated" )

C2_Witness ==
    /\ impl = "local" /\ terminal = "Done"
    /\ Len(response.body.list) > MaxRelated
    /\ Len(rendered) = MaxRelated
    /\ \E i \in 1..Len(response.body.list) :
          InSeq(response.body.list[i].filename, staged_files)

\* C3: in the remote pipeline the rendered report holds no staged path, no
\* score <= 0.3 and at most 10 entries, whatever the backend answered.
C3_RemoteReportFiltered ==
    impl = "remote" => ReportOK(rendered, staged_files)

ExactlyOneEmpty == (repoDiff = "") # (repoStaged = << >>)

\* C4 as stated: when exactly one of the staged diff and the staged-file list
\* is empty the run stops in NoChange with a non-zero status, the snapshot is
\* not built and no collaborator is called.
C4_HalfEmptyEndsInNoChange ==
    (RunsPipeline /\ ExactlyOneEmpty) =>
        /\ NoCollaboratorCall
        /\ ~snapshotBuilt
        /\ (pc = "exit" => terminal = "NoChange" /\ exitCode # 0)

\* C4 amended: the same, except that run_check with no token stored ends as
\* unauthenticated (also non-zero) before the change set is read.
C4_HalfEmptyStops ==
    (RunsPipeline /\ ExactlyOneEmpty) =>
        /\ NoCollaboratorCall
        /\ ~snapshotBuilt
        /\ (pc = "exit" =>
               /\ exitCode # 0
               /\ terminal = IF impl = "remote" /\ NoTokenStored
                             THEN "Unauthenticated" ELSE "NoChange")

C4_Witness ==
    /\ pc = "exit" /\ terminal = "NoChange" /\ exitCode = 1
    /\ diff = "" /\ staged_files # << >>

\* C5: with no token stored (file absent, or empty after trimming) run_check
\* stops at its first step, tells the user, exits 1 and sends no request.
C5_UnauthenticatedStops ==
    (impl = "remote" /\ NoTokenStored) =>
        /\ httpCalls = 0
        /\ pc \in {"start", "exit"}
        /\ (pc = "exit" => exitCode = 1 /\ userMsg = "not-authenticated")

C5_Witness ==
    /\ impl = "remote" /\ tokenFile = " "
    /\ pc = "exit" /\ exitCode = 1 /\ userMsg = "not-authenticated"

NoStagedChanges == repoDiff = "" \/ repoStaged = << >>

\* C6 as stated: the check command exits non-zero without staged changes,
\* without authentication or when the backend call fails, and exits zero on
\* every run in which the backend answers 200.
C6_ExitStatus ==
    (impl = "remote" /\ pc = "exit") =>
        /\ (NoStagedChanges \/ NoTokenStored \/ HttpRaised \/ AnsweredNon200
               => exitCode # 0)
        /\ (Answered(200) => exitCode = 0)

\* a 200 answer whose body parses to a JSON object with at least one key
WellFormed200 ==
    /\ Answered(200)
    /\ response.body.shape = "object"
    /\ response.body.keys # {}

\* C6 amended: zero exit on every run in which the backend answers 200 with a
\* body that parses to a non-empty JSON object, the answer listing no related
\* files included; non-zero exit in the three failure cases.
C6_ExitStatusWellFormed ==
    (impl = "remote" /\ pc = "exit") =>
        /\ (NoStagedChanges \/ NoTokenStored \/ HttpRaised \/ AnsweredNon200
               => exitCode # 0)
        /\ (WellFormed200 => exitCode = 0)

C6_Witness ==
    /\ impl = "remote" /\ pc = "exit" /\ exitCode = 0
    /\ WellFormed200 /\ response.body.list = << >>
    /\ terminal = "NoneRelated"

\* C7: on a non-success status rank_related_files returns the empty list and
\* main ends in NoneRelated with status 0, no owner resolved, no draft made.
C7_Non200IsNoneRelated ==
    (impl = "local" /\ AnsweredNon200) =>
        /\ pc = "exit" /\ terminal = "NoneRelated" /\ exitCode = 0
        /\ related = << >>
        /\ ownerCalls = 0 /\ genCalls = 0 /\ ~draftShown

C7_Witness ==
    /\ impl = "local" /\ Answered(500)
    /\ terminal = "NoneRelated" /\ exitCode = 0

\* C8: in the local pipeline no failure of the scoring call (connection
\* error, timeout, non-200 status, unparsable body) ends the run in an
\* uncaught exception; each yields the empty related list.
C8_ScoringFailureFallsBack ==
    ( /\ impl = "local"
      /\ \/ HttpRaised
         \/ AnsweredNon200
         \/ Answered(200) /\ response.body.shape = "invalid" )
    => terminal = "NoneRelated" /\ related = << >>

\* C9: in the remote pipeline a connection error, a timeout, a 401 and any
\* other non-200 answer are logged and caught; run_check exits 1 with no
\* owner resolved and no report rendered.
C9_BackendFailureCaught ==
    (impl = "remote" /\ (HttpRaised \/ AnsweredNon200)) =>
        /\ pc = "exit" /\ terminal = "BackendFailed" /\ exitCode = 1
        /\ logErrors >= 1
        /\ ownerCalls = 0 /\ rendered = << >>

C9_Witness ==
    /\ impl = "remote" /\ response.kind = "Timeout"
    /\ terminal = "BackendFailed" /\ exitCode = 1 /\ logErrors = 1

\* C10: a failure of the text-generation call still lets the run reach Done
\* with the related-file report rendered.
C10_DraftFailureReachesDone ==
    (impl = "local" /\ genResult = "raise") =>
        pc = "exit" /\ terminal = "Done" /\ rendered = related

(***************************************************************************)
(* get_file_owner                                                          *)
(***************************************************************************)
\* the history a logged call read
HistoryOf(i) == history[ownerLog[i].path]

\* the blame query of call i succeeded on a file with at least one line
Resolved(i) ==
    /\ HistoryOf(i).kind = "exit"
    /\ HistoryOf(i).rc = 0
    /\ HistoryOf(i).commits # << >>

\* lines of the file attributed to author e
LinesBy(h, e) ==
    Cardinality({ i \in 1..Len(h.commits) : CommitAuthor[h.commits[i]] = e })

\* commits of author e that lines of the file are attributed to
CommitsBy(h, e) ==
    Cardinality({ c \in Commits : /\ CommitAuthor[c] = e
                                  /\ \E i \in 1..Len(h.commits) : h.commits[i] = c })

AuthorsIn(h) == { CommitAuthor[h.commits[i]] : i \in 1..Len(h.commits) }

\* the first line of the file attributed to author e
FirstLineBy(h, e) ==
    CHOOSE i \in 1..Len(h.commits) :
        /\ CommitAuthor[h.commits[i]] = e
        /\ \A j \in 1..(i - 1) : CommitAuthor[h.commits[j]] # e

MaxLinesIn(h, e) == \A o \in AuthorsIn(h) : LinesBy(h, o) <= LinesBy(h, e)
MaxCommitsIn(h, e) == \A o \in AuthorsIn(h) : CommitsBy(h, o) <= CommitsBy(h, e)

\* C11 as stated: get_file_owner returns an author whose number of
\* attributed lines in the file's history is maximal among all authors.
C11_OwnerHasMostLines ==
    \A i \in 1..Len(ownerLog) :
        Resolved(i) =>
            /\ ownerLog[i].owner \in AuthorsIn(HistoryOf(i))
            /\ MaxLinesIn(HistoryOf(i), ownerLog[i].owner)

\* C11 amended: get_file_owner returns an author whose number of author-mail
\* header lines in the blame output, one per distinct commit of that author
\* that lines of the file are attributed to, is maximal among all authors.
C11_OwnerHasMostCommits ==
    \A i \in 1..Len(ownerLog) :
        Resolved(i) =>
            /\ ownerLog[i].owner \in AuthorsIn(HistoryOf(i))
            /\ MaxCommitsIn(HistoryOf(i), ownerLog[i].owner)

\* a file of two authors resolved to the one with strictly more commits
C11_Witness ==
    \E i \in 1..Len(ownerLog) :
        /\ Resolved(i)
        /\ AuthorsIn(HistoryOf(i)) = Emails
        /\ \A o \in Emails \ {ownerLog[i].owner} :
              CommitsBy(HistoryOf(i), o) < CommitsBy(HistoryOf(i), ownerLog[i].owner)

\* the blame query of a path fails or finds no author
BlameFails(f) ==
    \/ blame[f].kind = "raise"
    \/ blame[f].rc # 0
    \/ AuthorLines(blame[f].lines) = << >>

OwnersResolved == \A i \in 1..Len(related) : related[i].owner # NoOwner

PastOwners ==
    \/ pc \in {"display", "prompt", "draft"}
    \/ pc = "exit" /\ terminal = "Done"

\* C12: get_file_owner returns "unknown" when the history is empty or the
\* blame query fails (non-zero exit or exception) and never raises; in
\* ResolveOwners every related file gets an owner, and a failed resolution of
\* one file does not prevent the resolution of the files after it.
C12_UnknownOwnerNeverBlocks ==
    /\ \A i \in 1..Len(related) :
          (related[i].owner # NoOwner /\ BlameFails(related[i].filename))
              => related[i].owner = "unknown"
    /\ (pc = "owners" /\ ownerIdx > 1) => related[ownerIdx - 1].owner # NoOwner
    /\ PastOwners => (OwnersResolved /\ ownerCalls = Len(related))
    /\ (terminal = "Crashed" /\ ownerCalls > 0) => genResult = "raise"

\* a finished run whose first related file has a blame query that raises and
\* whose second file is resolved to an author
C12_Witness ==
    /\ pc = "exit" /\ terminal = "Done"
    /\ Len(related) >= 2
    /\ blame[related[1].filename].kind = "raise"
    /\ related[1].owner = "unknown"
    /\ related[2].owner \in Emails

\* the operator was asked and did not confirm
Declined == ~auto_draft /\ promptAnswer \in PromptAnswers \ {"y"}

\* C13: the draft is produced and shown only if the auto-draft flag is set or
\* the operator answers 'y' to the prompt; with no flag and any other answer
\* or end of input no draft is shown, crisk.py makes no call to the
\* text-generation collaborator, and the run still ends in Done with exit 0.
C13_DraftOnlyOnConfirmation ==
    /\ (draftShown \/ genCalls > 0) => (auto_draft \/ promptAnswer = "y")
    /\ Declined =>
          /\ ~draftShown
          /\ genCalls = 0
          /\ pc \in {"draft", "exit"}
          /\ pc = "exit" => (terminal = "Done" /\ exitCode = 0)

\* a run of crisk.py whose prompt met the end of input and that ended in Done
C13_Witness ==
    /\ impl = "local"
    /\ ~auto_draft /\ promptAnswer = "EOF"
    /\ rendered # << >>
    /\ pc = "exit" /\ terminal = "Done" /\ exitCode = 0
    /\ genCalls = 0 /\ ~draftShown

(***************************************************************************)
(* get_codebase_files                                                      *)
(***************************************************************************)
\* the exclusion set of the specification
ExclusionSet ==
    {".png", ".jpg", ".jpeg", ".gif", ".ico", ".pdf", ".zip", ".tar", ".gz", ".lock"}

InSnapshot(n) == \E i \in 1..Len(codebase) : codebase[i].filename = n

\* C14 as stated: the snapshot built by get_codebase_files, in both
\* implementations, contains no file whose extension is in the exclusion set
\* {png, jpg, jpeg, gif, ico, pdf, zip, tar, gz, lock}.
C14_NoExcludedExtension ==
    snapshotBuilt =>
        \A i \in 1..Len(trackedFiles) :
            trackedFiles[i].ext \in ExclusionSet => ~InSnapshot(trackedFiles[i].name)

\* the names of a listing or of a snapshot, in order
ListedNames == [i \in 1..Len(trackedFiles) |-> trackedFiles[i].name]
SnapshotNames == [i \in 1..Len(codebase) |-> codebase[i].filename]

Unreadable(f) == f.io # "ok" \/ f.len > ContentCeiling

\* C20 as stated: for any tracked-file listing and any read outcome,
\* get_codebase_files returns a snapshot whose contents are at most 50,000
\* long, whose paths are unique and in listing order, without the files that
\* failed to read or exceeded the ceiling and with every other non-excluded
\* tracked file.
C20_SnapshotWellFormed ==
    snapshotBuilt =>
        /\ \A i \in 1..Len(codebase) : codebase[i].content <= ContentCeiling
        /\ \A i \in 1..Len(codebase) : \A j \in 1..Len(codebase) :
              codebase[i].filename = codebase[j].filename => i = j
        /\ IsSubseq(SnapshotNames, ListedNames)
        /\ \A i \in 1..Len(trackedFiles) :
              Unreadable(trackedFiles[i]) => ~InSnapshot(trackedFiles[i].name)
        /\ \A i \in 1..Len(trackedFiles) :
              (/\ ~Unreadable(trackedFiles[i])
               /\ trackedFiles[i].ext \notin ExcludedOf(impl))
                  => InSnapshot(trackedFiles[i].name)

(***************************************************************************)
(* get_file_owner called repeatedly                                        *)

\* the authors of h holding the maximal number of lines, of commits
TiedOnLines(h) == { e \in AuthorsIn(h) : MaxLinesIn(h, e) }
TiedOnCommits(h) == { e \in AuthorsIn(h) : MaxCommitsIn(h, e) }

FirstSeenOf(h, tied) ==
    CHOOSE e \in tied : \A o \in tied : FirstLineBy(h, e) <= FirstLineBy(h, o)

\* C19 as stated: when two or more authors tie for the maximum line count
\* of a file's history, get_file_owner returns the tied author encountered
\* first in the history.
C19_LineTieFirstSeen ==
    \A i \in 1..Len(ownerLog) :
        (Resolved(i) /\ Cardinality(TiedOnLines(HistoryOf(i))) >= 2) =>
            ownerLog[i].owner = FirstSeenOf(HistoryOf(i), TiedOnLines(HistoryOf(i)))

\* C19 amended: when two or more authors tie for the maximum number of
\* author-mail header lines (distinct commits) of the blame output,
\* get_file_owner returns the tied author whose header comes first.
C19_CommitTieFirstSeen ==
    \A i \in 1..Len(ownerLog) :
        (Resolved(i) /\ Cardinality(TiedOnCommits(HistoryOf(i))) >= 2) =>
            ownerLog[i].owner = FirstSeenOf(HistoryOf(i), TiedOnCommits(HistoryOf(i)))

\* a file whose two authors have one commit each, resolved to the author of
\* the first line although the other author has more lines
C19_Witness ==
    \E i \in 1..Len(ownerLog) :
        /\ Resolved(i)
        /\ Cardinality(TiedOnCommits(HistoryOf(i))) = 2
        /\ ownerLog[i].owner = CommitAuthor[HistoryOf(i).commits[1]]
        /\ \E o \in Emails : LinesBy(HistoryOf(i), o) > LinesBy(HistoryOf(i), ownerLog[i].owner)

Plain(rs) == [i \in 1..Len(rs) |-> [filename |-> rs[i].filename, score |-> rs[i].score]]

\* the post-processing in the order of the specification: staged paths
\* removed, then scores at or below the threshold, then the first MaxRelated
FilterThenTruncate(results, staged) ==
    LET notStaged == SelectSeq(results, LAMBDA r : ~InSeq(r.filename, staged))
        above == SelectSeq(notStaged, LAMBDA r : r.score > ScoreThreshold)
    IN  Take(above, MaxRelated)

\* rank_related_files got a status-200 answer holding a JSON object
LocalRanked ==
    /\ impl = "local"
    /\ Answered(200)
    /\ response.body.shape = "object"

\* C16 as stated: rank_related_files returns exactly the list obtained by
\* first removing every entry whose path is staged, then every entry with
\* score <= 0.3, and then keeping the first 10 of the remaining entries.
C16_FilterThenTruncate ==
    LocalRanked => Plain(related) = FilterThenTruncate(response.body.list, staged_files)

\* C17: the report is an order-preserving subsequence of the collaborator's
\* result: no entry is reordered, added or duplicated, so entries with equal
\* scores keep the collaborator's order.
C17_ReportIsSubsequence ==
    /\ IsSubseq(Plain(related), response.body.list)
    /\ IsSubseq(Plain(rendered), response.body.list)

\* a report of crisk.py with two files of equal score, shorter than the
\* collaborator's result
C17_Witness ==
    /\ impl = "local"
    /\ Len(rendered) = 2
    /\ rendered[1].filename # rendered[2].filename
    /\ rendered[1].score = rendered[2].score
    /\ Len(response.body.list) > 2

(***************************************************************************)
(* Order of the steps                                                      *)
(***************************************************************************)
\* position of a step in ExtractChange, BuildSnapshot, RankRelated,
\* ResolveOwners, GenerateDraft, Done
StepRank(p) ==
    CASE p = "start"    -> 0
      [] p = "extract"  -> 1
      [] p = "snapshot" -> 2
      [] p = "rank"     -> 3
      [] p = "owners"   -> 4
      [] p = "display"  -> 5
      [] p = "prompt"   -> 6
      [] p = "draft"    -> 7
      [] p = "exit"     -> 8

\* a step moves the run forward; only the owner loop stays, on its next file
StepForward ==
    \/ StepRank(pc') > StepRank(pc)
    \/ pc = "owners" /\ pc' = "owners" /\ ownerIdx' = ownerIdx + 1

StepsInOrder ==
    /\ snapshotBuilt => (diff # "" /\ staged_files # << >>)
    /\ httpCalls <= 1
    /\ httpCalls = 1 => snapshotBuilt
    /\ StepRank(pc) \in 4..7 => httpCalls = 1
    /\ (pc = "owners" \/ ownerCalls > 0) => (httpCalls = 1 /\ related # << >>)
    /\ ownerCalls <= Len(related)
    /\ (genCalls > 0 \/ draftShown) => (OwnersResolved /\ ownerCalls = Len(related))
    /\ genCalls <= 1

\* C18: the steps occur in the order ExtractChange, BuildSnapshot,
\* RankRelated, ResolveOwners, GenerateDraft, Done, none repeated and no back
\* edge: the snapshot is built only after a non-empty change set, one ranking
\* call is made and only after the snapshot, owner resolution starts only
\* after a non-empty related list, the draft only after every file has an owner.
C18_StepsInOrder == [][StepForward]_vars /\ []StepsInOrder

\* a run of crisk.py that went through every step and generated the draft
C18_Witness ==
    /\ impl = "local"
    /\ pc = "exit" /\ terminal = "Done"
    /\ snapshotBuilt /\ httpCalls = 1
    /\ Len(related) >= 2 /\ ownerCalls = Len(related)
    /\ genCalls = 1 /\ draftShown

(***************************************************************************)
(* Failing git queries                                                     *)
(***************************************************************************)
\* a required query of the change set exits with a non-zero status
RequiredQueryFails == gitRc["diff"] # 0 \/ gitRc["staged"] # 0

\* the run got as far as reading the change set
ChangeSetRead == RunsPipeline /\ StepRank(pc) >= 2

\* C21: when git reports a non-zero exit status on the staged-diff or the
\* staged-file-list query, the failure is reported as an error that is
\* distinguishable from the NoChange outcome of a repository with nothing
\* staged.
C21_QueryFailureIsNotNoChange ==
    (RequiredQueryFails /\ ChangeSetRead) =>
        (terminal # "NoChange" /\ userMsg # "no-staged-changes")

\* C22: a total inability to list the tracked files is escalated as an
\* error: the pipeline does not go on to the ranking/analysis call with an
\* empty snapshot as if the repository had no files.
C22_ListingFailureStopsRun ==
    gitRc["ls-files"] # 0 => (httpCalls = 0 /\ StepRank(pc) \notin 3..7)

(***************************************************************************)
(* Malformed answers                                                       *)
(***************************************************************************)
\* a status-200 answer whose body is not a JSON object
Malformed200 == Answered(200) /\ response.body.shape # "object"

\* C23: a malformed collaborator response (status 200 with a body of the
\* wrong shape) is handled like collaborator unavailability: it degrades to
\* an empty result or a non-zero exit and never ends the run in an uncaught
\* exception.
C23_MalformedAnswerHandled ==
    Malformed200 =>
        /\ terminal # "Crashed"
        /\ related = << >>
        /\ pc = "exit" => terminal \in {"NoneRelated", "BackendFailed"}

(***************************************************************************)
(* The token file during a run                                             *)
(***************************************************************************)
\* C24: on every path through run_check, whatever its outcome, the token
\* file is left unchanged: the pipeline never writes, truncates or deletes it.
C24_TokenFileUntouched == [][tokenFile' = tokenFile]_vars

\* a run of run_check that read a stored token and ended in Done
C24_Witness ==
    /\ impl = "remote"
    /\ pc = "exit" /\ terminal = "Done"
    /\ tokenFile = "tok"
    /\ tokenReads > 0

\* C25: the on-disk session token is read at most once per run of the check
\* pipeline.
C25_TokenReadAtMostOnce == tokenReads <= 1

(***************************************************************************)
(* login, logout and the session                                           *)
(***************************************************************************)
\* login() has returned and no other command has started since
LoginReturned == lastCmd = "login" /\ loginPc = "idle"

PastDeadline == clock > LoginDeadline

\* C26: login writes the token file only when the listener received a
\* request carrying a token: when the wait ends by an error callback or by
\* the 120-second timeout, login returns False and the token file keeps what
\* it had before; callbacks with neither token nor error are answered 400
\* and do not end the wait.
C26_LoginWritesOnlyOnToken ==
    /\ loginPc = "wait" => tokenFile = tokenBefore
    /\ (LoginReturned /\ tokenFile # tokenBefore) =>
          (handlerToken # "None" /\ tokenFile = handlerToken)
    /\ (LoginReturned /\ (handlerError # "None" \/ PastDeadline)) =>
          (loginResult = "False" /\ tokenFile = tokenBefore)
    /\ (lastCmd = "login" /\ lastRequest.kind = "neither") =>
          /\ lastRequest.status = 400
          /\ ~PastDeadline => (loginPc = "wait" /\ loginResult = "none")

\* a login ended by an error callback with a token stored before it
C26_Witness ==
    /\ LoginReturned
    /\ handlerError = "denied"
    /\ loginResult = "False"
    /\ tokenBefore = "tok" /\ tokenFile = "tok"

\* C27: whenever the listener accepted a token during login, login saves
\* that token to the token file and returns True; no run has a token
\* accepted and login returning False without saving it.
C27_AcceptedTokenIsSaved ==
    (LoginReturned /\ handlerToken # "None") =>
        (loginResult = "True" /\ tokenFile = handlerToken)

\* C28: login always terminates: for every sequence of callback requests
\* the wait loop ends once the 120-second deadline has passed, and login
\* returns True or False with the listener closed.
C28_LoginTerminates ==
    /\ [](loginPc = "wait" => ~PastDeadline)
    /\ (loginPc = "wait") ~>
          (loginPc = "idle" /\ loginResult \in {"True", "False"} /\ ~serverOpen)

\* a login ended by the deadline after callbacks with neither token nor error
C28_Witness ==
    /\ LoginReturned
    /\ lastRequest.kind = "neither"
    /\ PastDeadline
    /\ loginResult = "False"
    /\ ~serverOpen

\* C29: after logout, is_authenticated is false and the next check returns 1
\* as unauthenticated until a login succeeds; after a login that returned
\* True, is_authenticated is true and load_token returns the token the
\* callback delivered; logout with no token stored changes nothing.
C29_SessionState ==
    /\ loggedOut => ~is_authenticated(tokenFile)
    /\ (loggedOut /\ lastCmd = "check") => lastCheck = "unauthenticated"
    /\ (LoginReturned /\ loginResult = "True") =>
          /\ is_authenticated(tokenFile)
          /\ load_token(tokenFile) = handlerToken
    /\ (lastCmd = "logout" /\ tokenBefore = "absent") => tokenFile = "absent"

====
